---- MODULE Spec2Model ----
(***************************************************************************)
(* Classification & Priority Decision Engine of harmonix_backend:          *)
(*   app/services/priority_engine.py    PriorityEngine.compute             *)
(*   app/services/category_detector.py  CategoryDetector.detect            *)
(*   app/services/zk_verifier.py        ZKVerifier.verify                  *)
(*   app/services/who_registry.py       WHO_APPROVED_PRODUCTS              *)
(*   app/services/harm_score.py         HarmScoreCalculator.calculate      *)
(*                                                                         *)
(* Python values are tagged records: None, Some(v) for a present value,    *)
(* Raised(e) for a call that ends in exception e.  Free text (str) is a    *)
(* sequence of one-character strings; enum literals are atomic strings.    *)
(* A weight is a number of tenths of a kilogram (2.5 kg is 25, 5 kg is 50).*)
(***************************************************************************)
EXTENDS Integers, Sequences, FiniteSets, TLC

VARIABLES
    call,              \* one call of an engine function
    packages,          \* rows of the packages table, in insertion order
    receipts,          \* rows of the receipts table, in insertion order
    harm_at_creation,  \* history: the score create_receipt computed, per row
    http,              \* the HTTP exchange in progress
    registry,          \* the module-level set WHO_APPROVED_PRODUCTS
    calls,             \* the engine call of each concurrent caller
    workers            \* the request each server process is handling

serviceVars == << packages, receipts, harm_at_creation, http >>

concurrentVars == << registry, calls, workers >>

vars == << call, packages, receipts, harm_at_creation, http, registry, calls,
          workers >>

\* ------------------------------------------------------------------------
\* Python values
\* ------------------------------------------------------------------------
None == [tag |-> "None"]

Some(v) == [tag |-> "Some", val |-> v]

Raised(e) == [tag |-> "Raised", val |-> e]

\* ------------------------------------------------------------------------
\* Bounds of the explored inputs
\* ------------------------------------------------------------------------
\* longest run of whitespace put before and after a word
MaxPad == 2

\* heaviest weight tried, in tenths of a kilogram (60 is 6 kg)
MaxWeight == 60

\* number of concurrent callers of the engine
NumCallers == 2

\* ------------------------------------------------------------------------
\* Characters and str methods
\* ------------------------------------------------------------------------
LowerLetters ==
    << "a", "b", "c", "d", "e", "f", "g", "h", "i", "j", "k", "l", "m",
       "n", "o", "p", "q", "r", "s", "t", "u", "v", "w", "x", "y", "z" >>

UpperLetters ==
    << "A", "B", "C", "D", "E", "F", "G", "H", "I", "J", "K", "L", "M",
       "N", "O", "P", "Q", "R", "S", "T", "U", "V", "W", "X", "Y", "Z" >>

Whitespace == { " ", "\t", "\n" }

LetterIndex(letters, c) == CHOOSE i \in 1..Len(letters) : letters[i] = c

IsUpper(c) == \E i \in 1..Len(UpperLetters) : UpperLetters[i] = c

IsLower(c) == \E i \in 1..Len(LowerLetters) : LowerLetters[i] = c

\* variant of str_lower that leaves every character as it is
str_lower_keepcase(s) == s

\* str.lower(): every cased character becomes its lowercase form
str_lower(s) ==
    [i \in 1..Len(s) |->
        IF IsUpper(s[i]) THEN LowerLetters[LetterIndex(UpperLetters, s[i])]
        ELSE s[i]]

\* upper-casing, used only to build the input texts
str_upper(s) ==
    [i \in 1..Len(s) |->
        IF IsLower(s[i]) THEN UpperLetters[LetterIndex(LowerLetters, s[i])]
        ELSE s[i]]

RECURSIVE str_lstrip(_)
str_lstrip(s) ==
    IF s # << >> /\ Head(s) \in Whitespace THEN str_lstrip(Tail(s)) ELSE s

RECURSIVE str_rstrip(_)
str_rstrip(s) ==
    IF s # << >> /\ s[Len(s)] \in Whitespace
    THEN str_rstrip(SubSeq(s, 1, Len(s) - 1))
    ELSE s

\* variant of str_strip that removes the leading whitespace only
str_strip_leading(s) == str_lstrip(s)

\* str.strip(): leading and trailing whitespace removed
str_strip(s) == str_rstrip(str_lstrip(s))

\* `not x` for x an Optional[str]: None and the empty string are falsy
Falsy(x) == x = None \/ (x.tag = "Some" /\ x.val = << >>)

\* isinstance(x, str)
IsStr(x) == x.tag = "Some"

\* `x.lower().strip()`: a method call on None raises AttributeError
Normalize(x) ==
    IF ~IsStr(x) THEN Raised("AttributeError")
    ELSE Some(str_strip(str_lower(x.val)))

\* ------------------------------------------------------------------------
\* who_registry.py
\* ------------------------------------------------------------------------
WHO_APPROVED_PRODUCTS ==
    { << "a", "n", "t", "i", "b", "i", "o", "t", "i", "c", "s" >>,
      << "v", "a", "c", "c", "i", "n", "e", "s" >>,
      << "f", "i", "r", "s", "t", "_", "a", "i", "d" >>,
      << "m", "e", "d", "i", "c", "a", "l", "_", "k", "i", "t" >>,
      << "s", "u", "r", "g", "i", "c", "a", "l", "_", "s", "u", "p", "p", "l", "i", "e", "s" >> }

\* ------------------------------------------------------------------------
\* zk_verifier.py
\* ------------------------------------------------------------------------
\* variant of verify without the guard on a missing or empty claim
verify_unguarded(claimed_product_type) ==
    LET normalized_claim == Normalize(claimed_product_type) IN
    IF normalized_claim.tag = "Raised" THEN normalized_claim
    ELSE Some(normalized_claim.val \in WHO_APPROVED_PRODUCTS)

verify(claimed_product_type) ==
    IF Falsy(claimed_product_type) \/ ~IsStr(claimed_product_type)
    THEN Some(FALSE)
    ELSE LET normalized_claim == Normalize(claimed_product_type) IN
         IF normalized_claim.tag = "Raised" THEN normalized_claim
         ELSE Some(normalized_claim.val \in WHO_APPROVED_PRODUCTS)

\* ------------------------------------------------------------------------
\* harm_score.py
\* ------------------------------------------------------------------------
earthquake == << "e", "a", "r", "t", "h", "q", "u", "a", "k", "e" >>

flood == << "f", "l", "o", "o", "d" >>

cyclone == << "c", "y", "c", "l", "o", "n", "e" >>

landslide == << "l", "a", "n", "d", "s", "l", "i", "d", "e" >>

storm == << "s", "t", "o", "r", "m" >>

\* the dict disaster_scores, as a set of (key, value) pairs
disaster_scores ==
    { << earthquake, 95 >>, << flood, 90 >>, << cyclone, 85 >>,
      << landslide, 80 >>, << storm, 70 >> }

\* dict.get(key, default)
dict_get(d, key, default) ==
    IF \E kv \in d : kv[1] = key
    THEN (CHOOSE kv \in d : kv[1] = key)[2]
    ELSE default

\* variant of calculate whose fallback for an unknown type is 0
calculate_zero_default(disaster_type) ==
    IF Falsy(disaster_type) \/ ~IsStr(disaster_type) THEN Some(10)
    ELSE LET normalized_type == Normalize(disaster_type) IN
         IF normalized_type.tag = "Raised" THEN normalized_type
         ELSE Some(dict_get(disaster_scores, normalized_type.val, 0))

calculate(disaster_type) ==
    IF Falsy(disaster_type) \/ ~IsStr(disaster_type) THEN Some(10)
    ELSE LET normalized_type == Normalize(disaster_type) IN
         IF normalized_type.tag = "Raised" THEN normalized_type
         ELSE Some(dict_get(disaster_scores, normalized_type.val, 10))

\* ------------------------------------------------------------------------
\* priority_engine.py
\* ------------------------------------------------------------------------
\* variant of compute without the early return for a missing category
compute_no_none_check(urgency, category) ==
    IF urgency = Some("critical") /\ category = Some("medicine") THEN Some("high")
    ELSE IF urgency = Some("critical") /\ category = Some("clothes") THEN Some("medium")
    ELSE IF urgency = Some("critical") /\ category = Some("fancy") THEN Some("low")
    ELSE IF urgency = Some("preferred") /\ category = Some("medicine") THEN Some("medium")
    ELSE IF urgency = Some("preferred") /\ category = Some("clothes") THEN Some("low")
    ELSE IF urgency = Some("preferred") /\ category = Some("fancy") THEN Some("low")
    ELSE IF urgency = Some("flexible") THEN Some("low")
    ELSE None

\* variant of compute that answers low for critical clothes
compute_clothes_low(urgency, category) ==
    IF category = None THEN None
    ELSE IF urgency = Some("critical") /\ category = Some("medicine") THEN Some("high")
    ELSE IF urgency = Some("critical") /\ category = Some("clothes") THEN Some("low")
    ELSE IF urgency = Some("critical") /\ category = Some("fancy") THEN Some("low")
    ELSE IF urgency = Some("preferred") /\ category = Some("medicine") THEN Some("medium")
    ELSE IF urgency = Some("preferred") /\ category = Some("clothes") THEN Some("low")
    ELSE IF urgency = Some("preferred") /\ category = Some("fancy") THEN Some("low")
    ELSE IF urgency = Some("flexible") THEN Some("low")
    ELSE None

\* variant of compute whose flexible rule asks for a declared category
compute_flexible_declared(urgency, category) ==
    IF category = None THEN None
    ELSE IF urgency = Some("critical") /\ category = Some("medicine") THEN Some("high")
    ELSE IF urgency = Some("critical") /\ category = Some("clothes") THEN Some("medium")
    ELSE IF urgency = Some("critical") /\ category = Some("fancy") THEN Some("low")
    ELSE IF urgency = Some("preferred") /\ category = Some("medicine") THEN Some("medium")
    ELSE IF urgency = Some("preferred") /\ category = Some("clothes") THEN Some("low")
    ELSE IF urgency = Some("preferred") /\ category = Some("fancy") THEN Some("low")
    ELSE IF urgency = Some("flexible")
              /\ category \in { Some("medicine"), Some("clothes"), Some("fancy") }
         THEN Some("low")
    ELSE None

\* variant of compute that answers medium for preferred fancy
compute_preferred_fancy_medium(urgency, category) ==
    IF category = None THEN None
    ELSE IF urgency = Some("critical") /\ category = Some("medicine") THEN Some("high")
    ELSE IF urgency = Some("critical") /\ category = Some("clothes") THEN Some("medium")
    ELSE IF urgency = Some("critical") /\ category = Some("fancy") THEN Some("low")
    ELSE IF urgency = Some("preferred") /\ category = Some("medicine") THEN Some("medium")
    ELSE IF urgency = Some("preferred") /\ category = Some("clothes") THEN Some("low")
    ELSE IF urgency = Some("preferred") /\ category = Some("fancy") THEN Some("medium")
    ELSE IF urgency = Some("flexible") THEN Some("low")
    ELSE None

compute(urgency, category) ==
    IF category = None THEN None
    ELSE IF urgency = Some("critical") /\ category = Some("medicine") THEN Some("high")
    ELSE IF urgency = Some("critical") /\ category = Some("clothes") THEN Some("medium")
    ELSE IF urgency = Some("critical") /\ category = Some("fancy") THEN Some("low")
    ELSE IF urgency = Some("preferred") /\ category = Some("medicine") THEN Some("medium")
    ELSE IF urgency = Some("preferred") /\ category = Some("clothes") THEN Some("low")
    ELSE IF urgency = Some("preferred") /\ category = Some("fancy") THEN Some("low")
    ELSE IF urgency = Some("flexible") THEN Some("low")
    ELSE None

\* ------------------------------------------------------------------------
\* category_detector.py
\* ------------------------------------------------------------------------
\* variant of PyLess with <= in place of <
PyLessOrEqual(weight, kg) ==
    IF weight.tag # "Some" THEN Raised("TypeError")
    ELSE Some(weight.val <= 10 * kg)

\* `weight < kg`: comparing None with a number raises TypeError
PyLess(weight, kg) ==
    IF weight.tag # "Some" THEN Raised("TypeError")
    ELSE Some(weight.val < 10 * kg)

\* variant of FragileLight without the test `weight is not None`
FragileLight_no_none_check(fragile, weight) ==
    IF fragile # Some(TRUE) THEN Some(FALSE)
    ELSE PyLess(weight, 5)

\* `fragile is True and weight is not None and weight < 5`
FragileLight(fragile, weight) ==
    IF fragile # Some(TRUE) THEN Some(FALSE)
    ELSE IF weight = None THEN Some(FALSE)
    ELSE PyLess(weight, 5)

\* variant of detect that tests the sender rules before the fragile rule
detect_sender_first(urgency, weight, fragile, sender_type, zk_verified_sender) ==
    IF zk_verified_sender = Some(TRUE)
       /\ sender_type \in { Some("hospital"), Some("ngo"), Some("govt") }
    THEN Some("medicine")
    ELSE IF sender_type = Some("luxury") THEN Some("fancy")
    ELSE IF sender_type \in { Some("retail"), Some("warehouse") }
    THEN Some("clothes")
    ELSE LET light == FragileLight(fragile, weight) IN
         IF light.tag = "Raised" THEN light
         ELSE IF light.val THEN Some("medicine")
         ELSE None

\* variant of detect that counts business among the institutional senders
detect_business_institutional(urgency, weight, fragile, sender_type, zk_verified_sender) ==
    IF zk_verified_sender = Some(TRUE)
       /\ sender_type \in { Some("hospital"), Some("ngo"), Some("govt"),
                            Some("business") }
    THEN Some("medicine")
    ELSE LET light == FragileLight(fragile, weight) IN
         IF light.tag = "Raised" THEN light
         ELSE IF light.val THEN Some("medicine")
         ELSE IF sender_type = Some("luxury") THEN Some("fancy")
         ELSE IF sender_type \in { Some("retail"), Some("warehouse") }
         THEN Some("clothes")
         ELSE None

detect(urgency, weight, fragile, sender_type, zk_verified_sender) ==
    IF zk_verified_sender = Some(TRUE)
       /\ sender_type \in { Some("hospital"), Some("ngo"), Some("govt") }
    THEN Some("medicine")
    ELSE LET light == FragileLight(fragile, weight) IN
         IF light.tag = "Raised" THEN light
         ELSE IF light.val THEN Some("medicine")
         ELSE IF sender_type = Some("luxury") THEN Some("fancy")
         ELSE IF sender_type \in { Some("retail"), Some("warehouse") }
         THEN Some("clothes")
         ELSE None

\* ------------------------------------------------------------------------
\* Inputs of the engine calls
\* ------------------------------------------------------------------------
\* schemas/packages.py PackageUrgency
PackageUrgency == { "critical", "preferred", "flexible" }

\* schemas/packages.py PackageCategory
PackageCategory == { "medicine", "clothes", "fancy" }

\* schemas/packages.py SenderType
SenderType ==
    { "hospital", "ngo", "govt", "retail", "luxury", "warehouse", "business" }

OptBool == { None, Some(TRUE), Some(FALSE) }

\* Optional[float] with ge=0, in tenths of a kilogram
Weights == { None } \cup { Some(n) : n \in 0..MaxWeight }

OptSender == { None } \cup { Some(t) : t \in SenderType }

OptCategory == { None } \cup { Some(c) : c \in PackageCategory }

UrgencyValues == { Some(u) : u \in PackageUrgency }

RECURSIVE SeqsUpTo(_, _)
SeqsUpTo(S, n) ==
    IF n = 0 THEN { << >> }
    ELSE LET shorter == SeqsUpTo(S, n - 1) IN
         shorter \cup { << c >> \o t : c \in S, t \in { x \in shorter : Len(x) = n - 1 } }

\* runs of whitespace of at most MaxPad characters
Pads == SeqsUpTo(Whitespace, MaxPad)

Capitalized(s) ==
    [i \in 1..Len(s) |-> IF i = 1 THEN str_upper(s)[i] ELSE s[i]]

Alternating(s) ==
    [i \in 1..Len(s) |-> IF i % 2 = 0 THEN str_upper(s)[i] ELSE s[i]]

Casings(s) == { s, str_upper(s), Capitalized(s), Alternating(s) }

\* every casing of every word, with every padding on both sides
Texts(words) ==
    { None } \cup
    { Some(l \o c \o r) :
        l \in Pads, r \in Pads, c \in UNION { Casings(x) : x \in words } }

\* claims that are no registry entry: an unknown word, a registry word cut
\* short, extended, and split by a blank
OtherClaims ==
    { << >>,
      << "u", "n", "i", "c", "o", "r", "n", "_", "d", "u", "s", "t" >>,
      << "v", "a", "c", "c", "i", "n", "e" >>,
      << "m", "e", "d", "i", "c", "a", "l", "_", "k", "i", "t", "s" >>,
      << "f", "i", "r", "s", "t", " ", "a", "i", "d" >>,
      << "m", "e", "d", "i", "c", "a", "l" >> }

ClaimTexts == Texts(WHO_APPROVED_PRODUCTS \cup OtherClaims)

\* disaster types outside the table
OtherDisasters ==
    { << >>,
      << "t", "s", "u", "n", "a", "m", "i" >>,
      << "f", "l", "o", "o", "d", "s" >>,
      << "e", "a", "r", " ", "t", "h", "q", "u", "a", "k", "e" >>,
      << "n", "o", "n", "e" >> }

DisasterTexts ==
    Texts({ earthquake, flood, cyclone, landslide, storm } \cup OtherDisasters)

\* ------------------------------------------------------------------------
\* The engine as called by the service layer.  `call` is one call: its
\* function, its arguments and, once the function has run, what it gave.
\* ------------------------------------------------------------------------
Request(op, args) == [op |-> op, args |-> args, done |-> FALSE, result |-> None]

ComputeRequests ==
    { Request("compute", [urgency |-> u, category |-> c]) :
        u \in UrgencyValues, c \in OptCategory }

DetectRequests ==
    { Request("detect", [urgency |-> u, weight |-> w, fragile |-> f,
                         sender_type |-> s, zk_verified_sender |-> z]) :
        u \in UrgencyValues, w \in Weights, f \in OptBool,
        s \in OptSender, z \in OptBool }

VerifyRequests ==
    { Request("verify", [claimed_product_type |-> t]) : t \in ClaimTexts }

CalculateRequests ==
    { Request("calculate", [disaster_type |-> t]) : t \in DisasterTexts }

\* no engine call under way
NoCall == [op |-> "none", args |-> << >>, done |-> TRUE, result |-> None]

\* no HTTP exchange under way
IdleHttp == [phase |-> "idle"]

Callers == 1..NumCallers

IdleCalls == [c \in Callers |-> [pc |-> "idle"]]

\* the server processes that share the database
Workers == { 1, 2 }

IdleWorkers == [w \in Workers |-> [pc |-> "idle"]]

\* the service layer before any request: both tables empty
ServiceAtRest ==
    /\ packages = << >>
    /\ receipts = << >>
    /\ harm_at_creation = << >>
    /\ http = IdleHttp

\* the registry as the module defines it, and no caller inside the engine
ConcurrentAtRest ==
    /\ registry = WHO_APPROVED_PRODUCTS
    /\ calls = IdleCalls
    /\ workers = IdleWorkers

Init ==
    /\ call \in ComputeRequests \cup DetectRequests \cup VerifyRequests
                 \cup CalculateRequests
    /\ ServiceAtRest
    /\ ConcurrentAtRest

Return(value) ==
    /\ call' = [call EXCEPT !.done = TRUE, !.result = value]
    /\ UNCHANGED << serviceVars, concurrentVars >>

CallCompute ==
    /\ call.op = "compute" /\ ~call.done
    /\ Return(compute(call.args.urgency, call.args.category))

CallDetect ==
    /\ call.op = "detect" /\ ~call.done
    /\ Return(detect(call.args.urgency, call.args.weight, call.args.fragile,
                     call.args.sender_type, call.args.zk_verified_sender))

CallVerify ==
    /\ call.op = "verify" /\ ~call.done
    /\ Return(verify(call.args.claimed_product_type))

CallCalculate ==
    /\ call.op = "calculate" /\ ~call.done
    /\ Return(calculate(call.args.disaster_type))

Next == CallCompute \/ CallDetect \/ CallVerify \/ CallCalculate

Spec == Init /\ [][Next]_vars

\* ------------------------------------------------------------------------
\* compute called directly with values outside the declared enums: the
\* parameters are plain strings, so any string or None can be passed
\* ------------------------------------------------------------------------
AnyUrgency ==
    UrgencyValues \cup { None, Some(""), Some("urgent"), Some("CRITICAL"),
                         Some(" critical"), Some("Flexible") }

AnyCategory ==
    OptCategory \cup { Some(""), Some("toys"), Some("Medicine") }

UntypedComputeRequests ==
    { Request("compute", [urgency |-> u, category |-> c]) :
        u \in AnyUrgency, c \in AnyCategory }

InitUntyped ==
    /\ call \in UntypedComputeRequests
    /\ ServiceAtRest
    /\ ConcurrentAtRest

NextUntyped == CallCompute

SpecUntyped == InitUntyped /\ [][NextUntyped]_vars

\* ------------------------------------------------------------------------
\* The packages table (Supabase) as the routers use it.  A row is a record
\* of Python values; its id is its position in the table.  Free text is a
\* sequence of strings (characters, or the pieces of a formatted string).
\* ------------------------------------------------------------------------
PackageColumns ==
    { "package_id", "status", "urgency", "description", "weight", "fragile",
      "sender_type", "zk_verified_sender", "category", "priority_label" }

\* insert(data): a column the data does not name is stored as null
db_insert(table, data) ==
    Append(table,
           [c \in PackageColumns |-> IF c \in DOMAIN data THEN data[c] ELSE None])

\* select("*").eq("id", uuid): the ids of the matching rows
db_select_id(table, uuid) == { i \in 1..Len(table) : i = uuid }

\* variant of the lookup by package_id that never finds a row
db_select_package_id_blind(table, package_id) ==
    { i \in 1..Len(table) : FALSE }

\* select("id").eq("package_id", package_id)
db_select_package_id(table, package_id) ==
    { i \in 1..Len(table) : table[i].package_id = package_id }

\* update(data).eq("id", uuid): the named columns of the matching rows change
db_update(table, uuid, data) ==
    [i \in 1..Len(table) |->
        IF i = uuid
        THEN [c \in DOMAIN table[i] |->
                 IF c \in DOMAIN data THEN data[c] ELSE table[i][c]]
        ELSE table[i]]

\* `if x:` for x None or the value of a str enum
Truthy(x) == x # None /\ x.val # ""

\* str(x) inside a formatted string, for x None or the value of a str enum
py_str(x) == IF x = None THEN "None" ELSE x.val

\* str(n) for a small count n
int_str(n) == << "0", "1", "2", "3", "4", "5", "6", "7", "8", "9", "10" >>[n + 1]

\* what a handler gives back: the table, the HTTP status, the body, the log
Outcome(db, status, body, log) ==
    [db |-> db, status |-> status, body |-> body, log |-> log]

LogRecord(level, event, detail) ==
    [level |-> level, event |-> event, detail |-> detail]

\* ------------------------------------------------------------------------
\* routers/packages.py
\* ------------------------------------------------------------------------
\* PackageCreate.validate_description: a blank description becomes None
validate_description(v) ==
    IF v # None /\ str_strip(v.val) = << >> THEN None ELSE v

\* variant of create_package_data that stores a default priority
create_package_data_low(body) ==
    [package_id |-> Some(body.package_id),
     status |-> Some(body.status),
     urgency |-> Some(body.urgency),
     description |-> validate_description(body.description),
     category |-> None,
     priority_label |-> Some("low")]

\* package_data of create_package
create_package_data(body) ==
    [package_id |-> Some(body.package_id),
     status |-> Some(body.status),
     urgency |-> Some(body.urgency),
     description |-> validate_description(body.description),
     category |-> None,
     priority_label |-> None]

\* POST /packages.  The insert of an existing package_id fails on the
\* table's unique constraint, which the handler answers with 409.
create_package(db, request) ==
    LET package_data == create_package_data(request.body) IN
    IF db_select_package_id(db, package_data.package_id) # { }
    THEN Outcome(db, 409, None,
                 { LogRecord("error", "Failed to create package", << "duplicate key" >>) })
    ELSE LET created == db_insert(db, package_data) IN
         Outcome(created, 201, Some(created[Len(created)]), { })

\* variant of validate_status that lets every status through, normalized
validate_status_any(v) ==
    IF v = None THEN None
    ELSE Some(str_strip(str_lower(v.val)))

\* PackageUpdate.validate_status
validate_status(v) ==
    IF v = None THEN None
    ELSE LET v_lower == str_strip(str_lower(v.val)) IN
         IF v_lower \in { << "i", "n", "_", "t", "r", "a", "n", "s", "i", "t" >>,
                          << "d", "e", "l", "i", "v", "e", "r", "e", "d" >>,
                          << "d", "e", "l", "a", "y", "e", "d" >> }
         THEN Some(v_lower)
         ELSE Raised("ValueError")

\* `request.status.value`: status is a str or None after validation, and
\* neither has an attribute `value`
status_value(status) == Raised("AttributeError")

\* PATCH /packages/{package_uuid}
update_package(db, request) ==
    LET status == validate_status(request.body.status) IN
    IF status.tag = "Raised" THEN Outcome(db, 422, None, { })
    ELSE LET value == status_value(status) IN
         IF value.tag = "Raised"
         THEN Outcome(db, 500, None,
                      { LogRecord("error", "Failed to update package", << value.val >>) })
         ELSE IF db_select_id(db, request.package_uuid) = { }
         THEN Outcome(db, 404, None, { })
         ELSE LET updated == db_update(db, request.package_uuid, [status |-> value]) IN
              Outcome(updated, 200, Some(updated[request.package_uuid]), { })

\* a call of detect with the positional arguments args: detect has five
\* required parameters, any other number raises TypeError
detect_positional(args) ==
    IF Len(args) # 5 THEN Raised("TypeError")
    ELSE detect(args[1], args[2], args[3], args[4], args[5])

\* variant of process_package that writes the request body to the log
process_package_logs_body(db, request) ==
    IF db_select_id(db, request.package_uuid) = { }
    THEN Outcome(db, 404, None, { })
    ELSE Outcome(db, 500, None,
                 { LogRecord("error", "Failed to process package",
                             IF request.body.claimed_product_type = None
                             THEN << "TypeError" >>
                             ELSE << "TypeError" >> \o request.body.claimed_product_type.val) })

\* PATCH /packages/{package_uuid}/process.  The handler declares the path
\* parameter only, so the body of the request is not bound to anything.
process_package(db, request) ==
    IF db_select_id(db, request.package_uuid) = { }
    THEN Outcome(db, 404, None, { })
    ELSE LET package == db[request.package_uuid]
             detected_category == detect_positional(<< package.description >>)
         IN
         IF detected_category.tag = "Raised"
         THEN Outcome(db, 500, None,
                      { LogRecord("error", "Failed to process package",
                                  << detected_category.val >>) })
         ELSE LET priority_label ==
                      IF Truthy(detected_category)
                      THEN compute(package.urgency, detected_category)
                      ELSE None
                  updated == db_update(db, request.package_uuid,
                                       [category |-> detected_category,
                                        priority_label |-> priority_label])
              IN Outcome(updated, 200, Some(updated[request.package_uuid]), { })

\* variant of category_update_data that also resets the urgency
category_update_data_urgency(urgency, category) ==
    [category |-> category,
     priority_label |-> compute(urgency, category),
     urgency |-> Some("flexible")]

\* variant of category_update_data that leaves the priority out
category_update_data_no_priority(urgency, category) ==
    [category |-> category, priority_label |-> None]

\* variant of category_update_data that computes the priority as if the
\* package were flexible
category_update_data_flexible(urgency, category) ==
    [category |-> category, priority_label |-> compute(Some("flexible"), category)]

\* update_data of update_package_category
category_update_data(urgency, category) ==
    [category |-> category, priority_label |-> compute(urgency, category)]

\* PATCH /packages/{package_uuid}/category
update_package_category(db, request) ==
    IF db_select_id(db, request.package_uuid) = { }
    THEN Outcome(db, 404, None, { })
    ELSE LET package == db[request.package_uuid]
             urgency == package.urgency
             update_data == category_update_data(urgency, Some(request.body.category))
             updated == db_update(db, request.package_uuid, update_data)
         IN Outcome(updated, 200, Some(updated[request.package_uuid]), { })

\* ------------------------------------------------------------------------
\* routers/seed.py
\* ------------------------------------------------------------------------
DemoPackageData(package_id, urgency, status, weight, fragile, sender_type) ==
    [package_id |-> package_id, urgency |-> urgency, status |-> status,
     weight |-> weight, fragile |-> fragile, sender_type |-> sender_type]

\* _get_demo_packages(), weights in tenths of a kilogram
demo_packages ==
    <<
       DemoPackageData("DEMO-001-HOSPITAL-CRIT", "critical", "in_transit", 25, TRUE, "hospital"),
       DemoPackageData("DEMO-002-NGO-CRIT", "critical", "in_transit", 80, FALSE, "ngo"),
       DemoPackageData("DEMO-003-NGO-PREF", "preferred", "in_transit", 55, TRUE, "ngo"),
       DemoPackageData("DEMO-004-WAREHOUSE-FLEX", "flexible", "in_transit", 150, FALSE, "warehouse"),
       DemoPackageData("DEMO-005-RETAIL-DELAYED", "critical", "delayed", 30, FALSE, "retail"),
       DemoPackageData("DEMO-006-LUXURY-DELIVERED", "flexible", "delivered", 12, TRUE, "luxury"),
       DemoPackageData("DEMO-007-GOVT-CRIT", "critical", "in_transit", 35, TRUE, "govt"),
       DemoPackageData("DEMO-008-RETAIL-PREF", "preferred", "in_transit", 20, FALSE, "retail"),
       DemoPackageData("DEMO-009-LUXURY-FLEX", "flexible", "in_transit", 8, TRUE, "luxury"),
       DemoPackageData("DEMO-010-NGO-CRIT-MED", "critical", "in_transit", 42, TRUE, "ngo")
    >>

\* variant of seed_priority that gives low when no category was detected
seed_priority_default_low(urgency, category) ==
    IF Truthy(category) THEN compute(urgency, category) ELSE Some("low")

\* priority_label of seed_packages: computed only `if category`
seed_priority(urgency, category) ==
    IF Truthy(category) THEN compute(urgency, category) ELSE None

\* package_data of seed_packages for one demo package
seed_package_data(demo_pkg) ==
    LET category == detect(Some(demo_pkg.urgency), Some(demo_pkg.weight),
                           Some(demo_pkg.fragile), Some(demo_pkg.sender_type),
                           None)
        priority_label == seed_priority(Some(demo_pkg.urgency), category)
    IN [package_id |-> Some(demo_pkg.package_id),
        status |-> Some(demo_pkg.status),
        urgency |-> Some(demo_pkg.urgency),
        weight |-> Some(demo_pkg.weight),
        fragile |-> Some(demo_pkg.fragile),
        sender_type |-> Some(demo_pkg.sender_type),
        zk_verified_sender |-> None,
        category |-> category,
        priority_label |-> priority_label,
        description |-> Some(<< "Demo package: ", demo_pkg.sender_type >>)]

\* the loop of seed_packages from demo package n on: acc is the table, the
\* ids of the rows created and the log so far
RECURSIVE seed_loop(_, _)
seed_loop(n, acc) ==
    IF n > Len(demo_packages) THEN acc
    ELSE LET demo_pkg == demo_packages[n] IN
         IF db_select_package_id(acc.db, Some(demo_pkg.package_id)) # { }
         THEN seed_loop(n + 1,
                [acc EXCEPT !.log = @ \cup
                    { LogRecord("info", "already exists, skipping",
                                << demo_pkg.package_id >>) }])
         ELSE LET package_data == seed_package_data(demo_pkg)
                  inserted == db_insert(acc.db, package_data)
              IN seed_loop(n + 1,
                   [db |-> inserted,
                    created |-> Append(acc.created, Len(inserted)),
                    log |-> acc.log \cup
                       { LogRecord("info", "Created demo package",
                                   << demo_pkg.package_id,
                                      py_str(package_data.category),
                                      py_str(package_data.priority_label) >>) }])

\* POST /seed/packages
seed_packages(db, request) ==
    LET done == seed_loop(1, [db |-> db, created |-> << >>, log |-> { }]) IN
    IF done.created = << >>
    THEN Outcome(done.db, 409, None, done.log)
    ELSE Outcome(done.db, 201,
                 Some([k \in 1..Len(done.created) |-> done.db[done.created[k]]]),
                 done.log \cup { LogRecord("info", "Seeding complete",
                                           << int_str(Len(done.created)) >>) })

\* ------------------------------------------------------------------------
\* Requests to the package endpoints, and the exchange of one request
\* ------------------------------------------------------------------------
\* highest package id a client addresses
MaxTarget == 2

PackageUuids == 1..MaxTarget

HttpRequest(op, package_uuid, body) ==
    [op |-> op, package_uuid |-> package_uuid, body |-> body]

box == << "b", "o", "x" >>

CreateRequests ==
    { HttpRequest("create_package", 0,
                  [package_id |-> "PKG-A", status |-> st, urgency |-> u,
                   description |-> d]) :
        st \in { "in_transit", "delivered" }, u \in PackageUrgency,
        d \in { None, Some(<< " " >>), Some(box) } }

StatusTexts ==
    { None,
      Some(<< "d", "e", "l", "i", "v", "e", "r", "e", "d" >>),
      Some(<< " ", "D", "E", "L", "A", "Y", "E", "D" >>),
      Some(<< "l", "o", "s", "t" >>) }

UpdateRequests ==
    { HttpRequest("update_package", id, [status |-> st]) :
        id \in PackageUuids, st \in StatusTexts }

unicorn_dust == << "u", "n", "i", "c", "o", "r", "n", "_", "d", "u", "s", "t" >>

\* bodies of PackageProcessSignals
ProcessSignals ==
    { [weight |-> wf[1], fragile |-> wf[2], sender_type |-> s,
       zk_verified_sender |-> z, claimed_product_type |-> c] :
        wf \in { << None, None >>, << Some(25), Some(TRUE) >> },
        s \in { None, Some("hospital") },
        z \in OptBool,
        c \in { None,
                Some(<< "a", "n", "t", "i", "b", "i", "o", "t", "i", "c", "s" >>),
                Some(<< "V", "A", "C", "C", "I", "N", "E", "S" >>),
                Some(unicorn_dust) } }

ProcessRequests ==
    { HttpRequest("process_package", id, b) :
        id \in PackageUuids, b \in ProcessSignals }

CategoryRequests ==
    { HttpRequest("update_package_category", id, [category |-> c]) :
        id \in PackageUuids, c \in PackageCategory }

SeedRequests == { HttpRequest("seed_packages", 0, << >>) }

PackageRequests ==
    CreateRequests \cup UpdateRequests \cup ProcessRequests
        \cup CategoryRequests \cup SeedRequests

Handling(op) == http.phase = "request" /\ http.request.op = op

\* the handler's outcome becomes the table and the response
Respond(outcome) ==
    /\ packages' = outcome.db
    /\ http' = [phase |-> "response", request |-> http.request,
                status |-> outcome.status, body |-> outcome.body,
                log |-> outcome.log]
    /\ UNCHANGED << call, receipts, harm_at_creation, concurrentVars >>

ReceivePackageRequest ==
    /\ http.phase = "idle"
    /\ \E r \in PackageRequests : http' = [phase |-> "request", request |-> r]
    /\ UNCHANGED << call, packages, receipts, harm_at_creation, concurrentVars >>

CreatePackage ==
    Handling("create_package") /\ Respond(create_package(packages, http.request))

UpdatePackage ==
    Handling("update_package") /\ Respond(update_package(packages, http.request))

ProcessPackage ==
    Handling("process_package") /\ Respond(process_package(packages, http.request))

UpdatePackageCategory ==
    /\ Handling("update_package_category")
    /\ Respond(update_package_category(packages, http.request))

SeedPackages ==
    Handling("seed_packages") /\ Respond(seed_packages(packages, http.request))

\* the client has read the response
Deliver ==
    /\ http.phase = "response"
    /\ http' = IdleHttp
    /\ UNCHANGED << call, packages, receipts, harm_at_creation, concurrentVars >>

InitPackages == call = NoCall /\ ServiceAtRest /\ ConcurrentAtRest

NextPackages ==
    \/ ReceivePackageRequest
    \/ CreatePackage
    \/ UpdatePackage
    \/ ProcessPackage
    \/ UpdatePackageCategory
    \/ SeedPackages
    \/ Deliver

SpecPackages == InitPackages /\ [][NextPackages]_vars

\* ------------------------------------------------------------------------
\* Seeding next to clients that create packages, some of them under the
\* package_id of a demo package
\* ------------------------------------------------------------------------
SeedingRequests ==
    { HttpRequest("create_package", 0,
                  [package_id |-> id, status |-> "in_transit", urgency |-> u,
                   description |-> None]) :
        id \in { "PKG-A", "DEMO-001-HOSPITAL-CRIT", "DEMO-010-NGO-CRIT-MED" },
        u \in { "critical", "flexible" } }
    \cup SeedRequests

ReceiveSeedingRequest ==
    /\ http.phase = "idle"
    /\ \E r \in SeedingRequests : http' = [phase |-> "request", request |-> r]
    /\ UNCHANGED << call, packages, receipts, harm_at_creation, concurrentVars >>

InitSeeding == call = NoCall /\ ServiceAtRest /\ ConcurrentAtRest

NextSeeding ==
    \/ ReceiveSeedingRequest
    \/ CreatePackage
    \/ SeedPackages
    \/ Deliver

SpecSeeding == InitSeeding /\ [][NextSeeding]_vars

\* ------------------------------------------------------------------------
\* The receipts table, routers/receipts.py and routers/seed_receipts.py
\* ------------------------------------------------------------------------
ReceiptColumns ==
    { "receipt_id", "package_id", "harm_score", "proof_summary", "status" }

\* insert(receipt_data) into receipts: a column the data does not name is
\* stored as null; the row's position stands for its id and its timestamp
db_insert_receipt(table, data) ==
    Append(table,
           [c \in ReceiptColumns |-> IF c \in DOMAIN data THEN data[c] ELSE None])

\* select("id").eq("receipt_id", receipt_id)
db_select_receipt_id(table, receipt_id) ==
    { i \in 1..Len(table) : table[i].receipt_id = receipt_id }

\* ReceiptResponse(**rcpt) for the row rcpt with id i
ReceiptResponse(i, rcpt) ==
    [id |-> i, receipt_id |-> rcpt.receipt_id, package_id |-> rcpt.package_id,
     harm_score |-> rcpt.harm_score, proof_summary |-> rcpt.proof_summary,
     status |-> rcpt.status, timestamp |-> i]

\* str(x) inside a formatted string, for x None or a str
py_text(x) == IF x = None THEN << "None" >> ELSE x.val

\* str(n) for a harm score n
score_str(n) ==
    CASE n = 95 -> "95" [] n = 90 -> "90" [] n = 85 -> "85" [] n = 80 -> "80"
      [] n = 70 -> "70" [] OTHER -> "10"

\* select("*").order("timestamp", desc=True): the newest row first
order_desc(table) ==
    [k \in 1..Len(table) |->
        ReceiptResponse(Len(table) + 1 - k, table[Len(table) + 1 - k])]

\* GET /receipts
list_receipts(db, request) ==
    Outcome(db, 200, Some(order_desc(db)), { })

\* the dict receipt_data of create_receipt
receipt_data(body, harm_score) ==
    [receipt_id |-> body.receipt_id, package_id |-> body.package_id,
     proof_summary |-> body.proof_summary, status |-> body.status]

\* variant of create_receipt that answers with the row as it was stored
create_receipt_from_row(db, request) ==
    LET harm_score == calculate(request.body.disaster_type) IN
    IF db_select_receipt_id(db, request.body.receipt_id) # { }
    THEN Outcome(db, 409, None,
                 { LogRecord("error", "Failed to create receipt",
                             << "duplicate key" >>) })
    ELSE LET stored == db_insert_receipt(db, receipt_data(request.body, harm_score))
         IN Outcome(stored, 201,
                    Some(ReceiptResponse(Len(stored), stored[Len(stored)])), { })

\* POST /receipts
create_receipt(db, request) ==
    LET harm_score == calculate(request.body.disaster_type) IN
    IF harm_score.tag = "Raised"
    THEN Outcome(db, 500, None,
                 { LogRecord("error", "Failed to create receipt",
                             << harm_score.val >>) })
    ELSE IF db_select_receipt_id(db, request.body.receipt_id) # { }
    THEN Outcome(db, 409, None,
                 { LogRecord("error", "Failed to create receipt",
                             << "duplicate key" >>) })
    ELSE LET stored == db_insert_receipt(db, receipt_data(request.body, harm_score))
             created_receipt ==
                 [ReceiptResponse(Len(stored), stored[Len(stored)])
                     EXCEPT !.harm_score = harm_score]
         IN Outcome(stored, 201, Some(created_receipt),
                    { LogRecord("info", "Created receipt",
                                << request.body.receipt_id >>
                                    \o py_text(request.body.disaster_type)
                                    \o << score_str(harm_score.val) >>) })

DemoReceiptData(receipt_id, package_id, proof_summary, status, disaster_type) ==
    [receipt_id |-> receipt_id, package_id |-> package_id,
     proof_summary |-> proof_summary, status |-> status,
     disaster_type |-> disaster_type]

demo_receipts ==
    <<
       DemoReceiptData("RECEIPT-001-HOSPITAL", "DEMO-001-HOSPITAL-CRIT",
                       "Emergency medical supplies verified by City Hospital. Delivery confirmed with signature from ER Director. Ethically sourced from WHO-approved supplier.",
                       "verified", Some(flood)),
       DemoReceiptData("RECEIPT-002-NGO", "DEMO-002-NGO-CRIT",
                       "Disaster relief supplies awaiting verification. Sent to Relief NGO, verification documents submitted.",
                       "pending", Some(earthquake)),
       DemoReceiptData("RECEIPT-003-COMMUNITY-NGO", "DEMO-003-NGO-PREF",
                       "Community health supplies verified by Community Health NGO. Rural center received package. Ethical sourcing verified from certified suppliers.",
                       "verified", Some(cyclone)),
       DemoReceiptData("RECEIPT-004-WAREHOUSE", "DEMO-004-WAREHOUSE-FLEX",
                       "Storage facility received goods. Verification in progress for regional warehouse inventory.",
                       "pending", None),
       DemoReceiptData("RECEIPT-005-RETAIL", "DEMO-005-RETAIL-DELAYED",
                       "Retail store received clothing shipment. Verified delivery with photos. Fair-trade sourcing confirmed.",
                       "verified", Some(landslide)),
       DemoReceiptData("RECEIPT-006-LUXURY", "DEMO-006-LUXURY-DELIVERED",
                       "Luxury boutique received exclusive collection. Quality inspection completed. Ethically produced by certified artisans.",
                       "verified", None),
       DemoReceiptData("RECEIPT-007-GOVT", "DEMO-007-GOVT-CRIT",
                       "Government health center medical shipment awaiting final verification. Initial inspection passed.",
                       "pending", Some(flood)),
       DemoReceiptData("RECEIPT-008-FASHION", "DEMO-008-RETAIL-PREF",
                       "Fashion retail received seasonal collection. Verified delivery from ethical supplier. Labor conditions certified as fair.",
                       "verified", Some(storm)),
       DemoReceiptData("RECEIPT-009-GALLERY", "DEMO-009-LUXURY-FLEX",
                       "Art gallery received cultural items. Artwork authenticated and ethically sourced from established artists.",
                       "verified", None),
       DemoReceiptData("RECEIPT-010-MEDICAL-NGO", "DEMO-010-NGO-CRIT-MED",
                       "Medical emergency supplies sent to NGO emergency response unit. Verification documents being processed.",
                       "pending", Some(earthquake))
    >>

RECURSIVE seed_receipts_loop(_, _)
\* the for loop of seed_receipts, from the n-th demo receipt on
seed_receipts_loop(n, acc) ==
    IF n > Len(demo_receipts) THEN acc
    ELSE LET demo_rcpt == demo_receipts[n] IN
         IF db_select_receipt_id(acc.db, demo_rcpt.receipt_id) # { }
         THEN seed_receipts_loop(n + 1,
                  [acc EXCEPT !.log = @ \cup
                      { LogRecord("info", "already exists, skipping",
                                  << demo_rcpt.receipt_id >>) }])
         ELSE LET harm_score == calculate(demo_rcpt.disaster_type)
                  stored == db_insert_receipt(acc.db,
                                              receipt_data(demo_rcpt, harm_score))
                  receipt_obj ==
                      [ReceiptResponse(Len(stored), stored[Len(stored)])
                          EXCEPT !.harm_score = harm_score]
              IN seed_receipts_loop(n + 1,
                     [db |-> stored,
                      created |-> Append(acc.created, receipt_obj),
                      log |-> acc.log \cup
                          { LogRecord("info", "Created demo receipt",
                                      << demo_rcpt.receipt_id >>
                                          \o py_text(demo_rcpt.disaster_type)
                                          \o << score_str(harm_score.val),
                                                demo_rcpt.package_id >>) }])

\* POST /seed/receipts
seed_receipts(db, request) ==
    LET done == seed_receipts_loop(1, [db |-> db, created |-> << >>, log |-> { }]) IN
    IF done.created = << >>
    THEN Outcome(done.db, 409, None, done.log)
    ELSE Outcome(done.db, 201, Some(done.created),
                 done.log \cup { LogRecord("info", "Seeding complete",
                                           << int_str(Len(done.created)) >>) })

\* ------------------------------------------------------------------------
\* Requests to the receipt endpoints, and the exchange of one request
\* ------------------------------------------------------------------------
ReceiptStatus == { "verified", "pending" }

\* bodies of ReceiptCreate
ReceiptBodies ==
    { [receipt_id |-> id, package_id |-> "PKG-A",
       proof_summary |-> "Delivery confirmed", status |-> st,
       disaster_type |-> d] :
        id \in { "RCPT-A", "RCPT-B" }, st \in ReceiptStatus,
        d \in { None, Some(flood), Some(<< " " >> \o str_upper(earthquake)),
                Some(<< "t", "s", "u", "n", "a", "m", "i" >>) } }

ReceiptRequests ==
    { HttpRequest("create_receipt", 0, b) : b \in ReceiptBodies }
        \cup { HttpRequest("list_receipts", 0, << >>),
               HttpRequest("seed_receipts", 0, << >>) }

\* the receipts a 201 response describes, in the order they were inserted
CreatedReceipts(request, outcome) ==
    IF outcome.status # 201 THEN << >>
    ELSE IF request.op = "create_receipt" THEN << outcome.body.val >>
    ELSE outcome.body.val

\* the handler's outcome becomes the table and the response; the score each
\* creation response reported is remembered for later comparison
RespondReceipt(outcome) ==
    LET created == CreatedReceipts(http.request, outcome) IN
    /\ receipts' = outcome.db
    /\ harm_at_creation' =
           harm_at_creation \o [k \in 1..Len(created) |-> created[k].harm_score]
    /\ http' = [phase |-> "response", request |-> http.request,
                status |-> outcome.status, body |-> outcome.body,
                log |-> outcome.log]
    /\ UNCHANGED << call, packages, concurrentVars >>

ReceiveReceiptRequest ==
    /\ http.phase = "idle"
    /\ \E r \in ReceiptRequests : http' = [phase |-> "request", request |-> r]
    /\ UNCHANGED << call, packages, receipts, harm_at_creation, concurrentVars >>

ListReceipts ==
    Handling("list_receipts") /\ RespondReceipt(list_receipts(receipts, http.request))

CreateReceipt ==
    Handling("create_receipt") /\ RespondReceipt(create_receipt(receipts, http.request))

SeedReceipts ==
    Handling("seed_receipts") /\ RespondReceipt(seed_receipts(receipts, http.request))

InitReceipts == call = NoCall /\ ServiceAtRest /\ ConcurrentAtRest

NextReceipts ==
    \/ ReceiveReceiptRequest
    \/ ListReceipts
    \/ CreateReceipt
    \/ SeedReceipts
    \/ Deliver

SpecReceipts == InitReceipts /\ [][NextReceipts]_vars

\* ------------------------------------------------------------------------
\* The engine called by several callers at once.  `registry` is the module
\* global WHO_APPROVED_PRODUCTS; calls[c] is caller c's position inside
\* the function it called.  Only verify reads shared data, so it is split
\* where another caller can run between its statements.
\* ------------------------------------------------------------------------
ConcurrentRequests ==
    { Request("verify", [claimed_product_type |-> t]) :
        t \in { None, Some(<< >>), Some(<< "v", "a", "c", "c", "i", "n", "e", "s" >>),
                Some(<< " ", "F", "i", "r", "s", "t", "_", "A", "i", "d", "\n" >>),
                Some(unicorn_dust) } }
    \cup { Request("detect", [urgency |-> Some("critical"), weight |-> w,
                              fragile |-> Some(TRUE), sender_type |-> s,
                              zk_verified_sender |-> z]) :
             w \in { Some(25) }, s \in { Some("hospital"), Some("luxury") },
             z \in { None, Some(TRUE) } }
    \cup { Request("compute", [urgency |-> Some("critical"), category |-> c]) :
             c \in { None, Some("medicine") } }
    \cup { Request("calculate", [disaster_type |-> t]) :
             t \in { None, Some(flood) } }

InCall(c, op, pc) ==
    calls[c].pc = pc /\ calls[c].op = op

Enter(c) ==
    /\ calls[c].pc = "idle"
    /\ \E r \in ConcurrentRequests :
          calls' = [calls EXCEPT ![c] =
                       [pc |-> "called", op |-> r.op, args |-> r.args,
                        local |-> None, result |-> None]]
    /\ UNCHANGED << call, serviceVars, registry, workers >>

Finish(c, value) ==
    calls' = [calls EXCEPT ![c].pc = "returned", ![c].result = value]

\* verify up to `normalized_claim = claimed_product_type.lower().strip()`
VerifyNormalize(c) ==
    /\ InCall(c, "verify", "called")
    /\ LET claimed_product_type == calls[c].args.claimed_product_type IN
       IF Falsy(claimed_product_type) \/ ~IsStr(claimed_product_type)
       THEN Finish(c, Some(FALSE))
       ELSE calls' = [calls EXCEPT ![c].pc = "normalized",
                                   ![c].local = Normalize(claimed_product_type)]
    /\ UNCHANGED << call, serviceVars, registry, workers >>

\* variant of verify_lookup that adds the claim it looked up to the set
verify_lookup_learning(reg, normalized_claim) ==
    [registry |-> reg \cup { normalized_claim },
     is_verified |-> Some(normalized_claim \in reg)]

\* `is_verified = normalized_claim in WHO_APPROVED_PRODUCTS`: the set as
\* the statement leaves it, and the value it gives
verify_lookup(reg, normalized_claim) ==
    [registry |-> reg, is_verified |-> Some(normalized_claim \in reg)]

\* verify from the membership test to its return
VerifyLookup(c) ==
    /\ InCall(c, "verify", "normalized")
    /\ LET looked == verify_lookup(registry, calls[c].local.val) IN
       /\ registry' = looked.registry
       /\ Finish(c, looked.is_verified)
    /\ UNCHANGED << call, serviceVars, workers >>

RunDetect(c) ==
    /\ InCall(c, "detect", "called")
    /\ Finish(c, detect(calls[c].args.urgency, calls[c].args.weight,
                        calls[c].args.fragile, calls[c].args.sender_type,
                        calls[c].args.zk_verified_sender))
    /\ UNCHANGED << call, serviceVars, registry, workers >>

RunCompute(c) ==
    /\ InCall(c, "compute", "called")
    /\ Finish(c, compute(calls[c].args.urgency, calls[c].args.category))
    /\ UNCHANGED << call, serviceVars, registry, workers >>

RunCalculate(c) ==
    /\ InCall(c, "calculate", "called")
    /\ Finish(c, calculate(calls[c].args.disaster_type))
    /\ UNCHANGED << call, serviceVars, registry, workers >>

\* the caller has its result and may call again
Leave(c) ==
    /\ calls[c].pc = "returned"
    /\ calls' = [calls EXCEPT ![c] = [pc |-> "idle"]]
    /\ UNCHANGED << call, serviceVars, registry, workers >>

InitConcurrent == call = NoCall /\ ServiceAtRest /\ ConcurrentAtRest

NextConcurrent ==
    \E c \in Callers :
        \/ Enter(c)
        \/ VerifyNormalize(c)
        \/ VerifyLookup(c)
        \/ RunDetect(c)
        \/ RunCompute(c)
        \/ RunCalculate(c)
        \/ Leave(c)

SpecConcurrent == InitConcurrent /\ [][NextConcurrent]_vars

\* ------------------------------------------------------------------------
\* Two server processes on one database.  A handler has no await, so one
\* process runs it to its end; processes that share the database (workers
\* of the server, or the instances on ports 8000 and 8001 that the tests
\* address) interleave between the handlers' database calls.  workers[w]
\* is the request of process w and its position between those calls.
\* ------------------------------------------------------------------------
\* routers/dashboard.py: select("id", count="exact").eq("status", status)
db_count_status(table, status) ==
    Cardinality({ i \in 1..Len(table) : table[i].status = Some(status) })

\* select("id", count="exact")
db_count(table) == Len(table)

MetricsRequests == { HttpRequest("get_dashboard_metrics", 0, << >>) }

WorkerRequests ==
    { HttpRequest("create_package", 0,
                  [package_id |-> "PKG-A", status |-> st, urgency |-> "critical",
                   description |-> None]) : st \in { "in_transit", "delayed" } }
    \cup { HttpRequest("update_package_category", 1, [category |-> c]) :
             c \in { "medicine", "fancy" } }
    \cup { HttpRequest("process_package", 1,
                       [weight |-> Some(25), fragile |-> Some(TRUE),
                        sender_type |-> Some("hospital"),
                        zk_verified_sender |-> None,
                        claimed_product_type |-> None]) }
    \cup SeedRequests
    \cup MetricsRequests

\* a process that has received the request and made no database call yet
Received(r) ==
    [op |-> r.op, package_uuid |-> r.package_uuid, body |-> r.body,
     pc |-> "start", n |-> 1, created |-> 0, local |-> None,
     counts |-> << >>, status |-> 0]

\* tables the sequential service reaches: empty, one created package, the
\* demo packages
InitialTables ==
    { << >>,
      create_package(<< >>,
          HttpRequest("create_package", 0,
                      [package_id |-> "PKG-A", status |-> "delivered",
                       urgency |-> "preferred", description |-> None])).db,
      seed_packages(<< >>, HttpRequest("seed_packages", 0, << >>)).db }

InitWorkers ==
    /\ call = NoCall
    /\ packages \in InitialTables
    /\ receipts = << >>
    /\ harm_at_creation = << >>
    /\ http = IdleHttp
    /\ registry = WHO_APPROVED_PRODUCTS
    /\ calls = IdleCalls
    /\ workers \in [Workers -> { Received(r) : r \in WorkerRequests }]

At(w, op, pc) == workers[w].op = op /\ workers[w].pc = pc

Done(wk, status) == [wk EXCEPT !.pc = "done", !.status = status]

OnlyWorkers == UNCHANGED << call, receipts, harm_at_creation, http, registry, calls >>

\* create_package: its one database call, the insert.  When the
\* package_id is stored already the database rejects the insert if the
\* table has a unique constraint on package_id (the handler then answers
\* 409) and stores a second row if it has none; the schema is not part of
\* the repository, so both can happen.
WorkerCreate(w) ==
    /\ At(w, "create_package", "start")
    /\ LET package_data == create_package_data(workers[w].body) IN
       \/ /\ packages' = db_insert(packages, package_data)
          /\ workers' = [workers EXCEPT ![w] = Done(@, 201)]
       \/ /\ db_select_package_id(packages, package_data.package_id) # { }
          /\ packages' = packages
          /\ workers' = [workers EXCEPT ![w] = Done(@, 409)]
    /\ OnlyWorkers

\* the loop of seed_packages moves to the next demo package, or ends
SeedAdvance(wk, created) ==
    IF wk.n = Len(demo_packages)
    THEN [wk EXCEPT !.pc = "done", !.created = created,
                    !.status = IF created = 0 THEN 409 ELSE 201]
    ELSE [wk EXCEPT !.pc = "start", !.n = @ + 1, !.created = created]

\* seed_packages: the existence check of demo package n
WorkerSeedCheck(w) ==
    /\ At(w, "seed_packages", "start")
    /\ LET demo_pkg == demo_packages[workers[w].n] IN
       IF db_select_package_id(packages, Some(demo_pkg.package_id)) # { }
       THEN workers' = [workers EXCEPT ![w] = SeedAdvance(@, @.created)]
       ELSE workers' = [workers EXCEPT ![w].pc = "insert"]
    /\ packages' = packages
    /\ OnlyWorkers

\* seed_packages: the insert of demo package n, after its check found no
\* row.  A row stored since the check is rejected by a unique constraint
\* (the handler then answers 500) or doubled without one.
WorkerSeedInsert(w) ==
    /\ At(w, "seed_packages", "insert")
    /\ LET package_data == seed_package_data(demo_packages[workers[w].n]) IN
       \/ /\ packages' = db_insert(packages, package_data)
          /\ workers' = [workers EXCEPT ![w] = SeedAdvance(@, @.created + 1)]
       \/ /\ db_select_package_id(packages, package_data.package_id) # { }
          /\ packages' = packages
          /\ workers' = [workers EXCEPT ![w] = Done(@, 500)]
    /\ OnlyWorkers

\* process_package: the fetch, and the call of detect that fails
WorkerProcess(w) ==
    /\ At(w, "process_package", "start")
    /\ LET outcome == process_package(packages, workers[w]) IN
       /\ packages' = outcome.db
       /\ workers' = [workers EXCEPT ![w] = Done(@, outcome.status)]
    /\ OnlyWorkers

\* update_package_category: the fetch of the package and its urgency
WorkerCategoryFetch(w) ==
    /\ At(w, "update_package_category", "start")
    /\ IF db_select_id(packages, workers[w].package_uuid) = { }
       THEN workers' = [workers EXCEPT ![w] = Done(@, 404)]
       ELSE workers' = [workers EXCEPT
                           ![w].pc = "update",
                           ![w].local = packages[workers[w].package_uuid].urgency]
    /\ packages' = packages
    /\ OnlyWorkers

\* update_package_category: the update with the priority computed from
\* the urgency that was fetched
WorkerCategoryUpdate(w) ==
    /\ At(w, "update_package_category", "update")
    /\ LET update_data == category_update_data(workers[w].local,
                                               Some(workers[w].body.category))
       IN packages' = db_update(packages, workers[w].package_uuid, update_data)
    /\ workers' = [workers EXCEPT ![w] = Done(@, 200)]
    /\ OnlyWorkers

\* get_dashboard_metrics: the count of all packages
WorkerMetricsTotal(w) ==
    /\ At(w, "get_dashboard_metrics", "start")
    /\ workers' = [workers EXCEPT ![w].pc = "active",
                                  ![w].counts = << db_count(packages) >>]
    /\ packages' = packages
    /\ OnlyWorkers

\* get_dashboard_metrics: the next count by status; after the last one the
\* response is built from the four counts
WorkerMetricsStatus(w) ==
    /\ workers[w].op = "get_dashboard_metrics"
    /\ \E step \in { << "active", "in_transit", "alerts" >>,
                     << "alerts", "delayed", "completed" >>,
                     << "completed", "delivered", "done" >> } :
          /\ workers[w].pc = step[1]
          /\ workers' = [workers EXCEPT
                 ![w].pc = step[3],
                 ![w].counts = Append(@, db_count_status(packages, step[2])),
                 ![w].status = IF step[3] = "done" THEN 200 ELSE 0]
    /\ packages' = packages
    /\ OnlyWorkers

NextWorkers ==
    \E w \in Workers :
        \/ WorkerCreate(w)
        \/ WorkerSeedCheck(w)
        \/ WorkerSeedInsert(w)
        \/ WorkerProcess(w)
        \/ WorkerCategoryFetch(w)
        \/ WorkerCategoryUpdate(w)
        \/ WorkerMetricsTotal(w)
        \/ WorkerMetricsStatus(w)

SpecWorkers == InitWorkers /\ [][NextWorkers]_vars

\* ------------------------------------------------------------------------
\* Properties of PriorityEngine.compute
\* ------------------------------------------------------------------------
Returned(op) == call.op = op /\ call.done

\* the 3x3 matrix as the specification states it
SpecMatrix ==
    [u \in PackageUrgency |->
        CASE u = "critical"  -> [medicine |-> "high", clothes |-> "medium", fancy |-> "low"]
          [] u = "preferred" -> [medicine |-> "medium", clothes |-> "low", fancy |-> "low"]
          [] u = "flexible"  -> [medicine |-> "low", clothes |-> "low", fancy |-> "low"]]

\* C1: for each of the nine (urgency, category) pairs of the declared enums
\* compute returns exactly the cell of the fixed matrix, never null.
C1_MatrixCellsExact ==
    (Returned("compute") /\ call.args.category # None)
        => call.result =
             Some(SpecMatrix[call.args.urgency.val][call.args.category.val])

C1_Witness ==
    /\ Returned("compute")
    /\ call.args = [urgency |-> Some("critical"), category |-> Some("medicine")]
    /\ call.result = Some("high")

\* C2: for every urgency, compute(urgency, None) returns None.
C2_NullCategoryNullPriority ==
    (Returned("compute") /\ call.args.category = None) => call.result = None

C2_Witness ==
    /\ Returned("compute")
    /\ call.args = [urgency |-> Some("flexible"), category |-> None]
    /\ call.result = None

\* ------------------------------------------------------------------------
\* Properties of CategoryDetector.detect
\* ------------------------------------------------------------------------
\* the ordered decision list as the specification states it (5 kg is 50
\* tenths of a kilogram)
SpecRule(n, a) ==
    CASE n = 1 -> /\ a.zk_verified_sender = Some(TRUE)
                  /\ \E t \in { "hospital", "ngo", "govt" } : a.sender_type = Some(t)
      [] n = 2 -> /\ a.fragile = Some(TRUE)
                  /\ \E k \in 0..MaxWeight : a.weight = Some(k) /\ k < 50
      [] n = 3 -> a.sender_type = Some("luxury")
      [] n = 4 -> \E t \in { "retail", "warehouse" } : a.sender_type = Some(t)
      [] n = 5 -> TRUE

SpecRuleResult ==
    << Some("medicine"), Some("medicine"), Some("fancy"), Some("clothes"), None >>

FirstMatch(a) ==
    CHOOSE n \in 1..5 : SpecRule(n, a) /\ \A m \in 1..(n - 1) : ~SpecRule(m, a)

\* C3: detect returns the result of the first matching rule of the ordered
\* list, for every combination of the four signals.
C3_FirstMatchingRuleWins ==
    Returned("detect") => call.result = SpecRuleResult[FirstMatch(call.args)]

C3_Witness ==
    /\ Returned("detect")
    /\ call.args.zk_verified_sender = Some(TRUE)
    /\ call.args.sender_type = Some("hospital")
    /\ call.args.fragile = Some(TRUE)
    /\ call.args.weight = Some(25)
    /\ call.result = Some("medicine")

SenderRuleTypes == { "luxury", "retail", "warehouse" }

SenderRuleResult(t) == IF t = "luxury" THEN Some("fancy") ELSE Some("clothes")

\* C4: a fragile package lighter than 5 kg is medicine even for a luxury,
\* retail or warehouse sender; at exactly 5 kg, or with no weight, the
\* sender-type rules decide.
C4_FragileRuleBeforeSenderRules ==
    (/\ Returned("detect")
     /\ call.args.fragile = Some(TRUE)
     /\ \E t \in SenderRuleTypes : call.args.sender_type = Some(t))
        => IF \E k \in 0..49 : call.args.weight = Some(k)
           THEN call.result = Some("medicine")
           ELSE (call.args.weight \in { None, Some(50) })
                   => call.result = SenderRuleResult(call.args.sender_type.val)

C4_Witness ==
    /\ Returned("detect")
    /\ call.args.fragile = Some(TRUE)
    /\ call.args.weight = Some(50)
    /\ call.args.sender_type = Some("luxury")
    /\ call.result = Some("fancy")

\* C5: detect never raises for absent fields; an absent field fails the
\* rules that mention it, and when no rule matches the result is null.
C5_AbsentFieldsNeverRaise ==
    Returned("detect")
        => /\ call.result.tag # "Raised"
           /\ (call.args.weight = None /\ call.args.zk_verified_sender = None)
                 => call.result \in { None, Some("fancy"), Some("clothes") }
           /\ (call.args.sender_type = None /\ call.args.fragile = None)
                 => call.result = None
           /\ (\A n \in 1..4 : ~SpecRule(n, call.args)) => call.result = None

C5_Witness ==
    /\ Returned("detect")
    /\ call.args.weight = None
    /\ call.args.fragile = Some(TRUE)
    /\ call.args.sender_type = None
    /\ call.args.zk_verified_sender = None
    /\ call.result = None

\* C6: for a business sender detect returns medicine exactly when the
\* package is fragile and lighter than 5 kg, and null otherwise, whatever
\* zk_verified_sender is.
C6_BusinessFallsThrough ==
    (Returned("detect") /\ call.args.sender_type = Some("business"))
        => call.result =
             IF /\ call.args.fragile = Some(TRUE)
                /\ \E k \in 0..49 : call.args.weight = Some(k)
             THEN Some("medicine")
             ELSE None

C6_Witness ==
    /\ Returned("detect")
    /\ call.args.sender_type = Some("business")
    /\ call.args.zk_verified_sender = Some(TRUE)
    /\ call.args.fragile = Some(FALSE)
    /\ call.result = None

\* ------------------------------------------------------------------------
\* Properties of ZKVerifier.verify and HarmScoreCalculator.calculate
\* ------------------------------------------------------------------------
Blank(s) == \A i \in 1..Len(s) : s[i] \in Whitespace

SameLetter(a, b) ==
    a = b \/ \E n \in 1..26 : a = UpperLetters[n] /\ b = LowerLetters[n]

\* s is word, in any letter case, between two runs of whitespace
Spells(s, word) ==
    \E i \in 0..Len(s) :
        /\ i + Len(word) <= Len(s)
        /\ \A k \in 1..i : s[k] \in Whitespace
        /\ \A k \in (i + Len(word) + 1)..Len(s) : s[k] \in Whitespace
        /\ \A k \in 1..Len(word) : SameLetter(s[i + k], word[k])

\* the Trust Registry as the specification states it
SpecRegistry ==
    { << "a", "n", "t", "i", "b", "i", "o", "t", "i", "c", "s" >>,
      << "v", "a", "c", "c", "i", "n", "e", "s" >>,
      << "f", "i", "r", "s", "t", "_", "a", "i", "d" >>,
      << "m", "e", "d", "i", "c", "a", "l", "_", "k", "i", "t" >>,
      << "s", "u", "r", "g", "i", "c", "a", "l", "_", "s", "u", "p", "p", "l", "i", "e", "s" >> }

\* C7: verify returns false, without raising, for an absent claim, the
\* empty string and every whitespace-only string.
C7_BlankClaimNotVerified ==
    (/\ Returned("verify")
     /\ \/ call.args.claimed_product_type = None
        \/ Blank(call.args.claimed_product_type.val))
        => call.result = Some(FALSE)

C7_Witness ==
    /\ Returned("verify")
    /\ call.args.claimed_product_type # None
    /\ Len(call.args.claimed_product_type.val) = 2
    /\ Blank(call.args.claimed_product_type.val)
    /\ call.result = Some(FALSE)

\* C8: for a non-blank claim verify returns true iff the claim is a
\* registry entry up to letter case and surrounding whitespace.
C8_VerifiedIffInRegistry ==
    (/\ Returned("verify")
     /\ call.args.claimed_product_type # None
     /\ ~Blank(call.args.claimed_product_type.val))
        => call.result =
             Some(\E word \in SpecRegistry :
                     Spells(call.args.claimed_product_type.val, word))

C8_Witness ==
    /\ Returned("verify")
    /\ call.args.claimed_product_type =
         Some(<< " ", "V", "A", "C", "C", "I", "N", "E", "S", "\n", "\t" >>)
    /\ call.result = Some(TRUE)

\* the recognized disaster types and their scores as the specification
\* states them
SpecScores ==
    { << << "e", "a", "r", "t", "h", "q", "u", "a", "k", "e" >>, 95 >>,
      << << "f", "l", "o", "o", "d" >>, 90 >>,
      << << "c", "y", "c", "l", "o", "n", "e" >>, 85 >>,
      << << "l", "a", "n", "d", "s", "l", "i", "d", "e" >>, 80 >>,
      << << "s", "t", "o", "r", "m" >>, 70 >> }

\* C9: calculate maps every spelling, in any letter case and with any
\* surrounding whitespace, of earthquake / flood / cyclone / landslide /
\* storm to 95 / 90 / 85 / 80 / 70.
C9_RecognizedDisasterScores ==
    (Returned("calculate") /\ call.args.disaster_type # None)
        => \A ws \in SpecScores :
              Spells(call.args.disaster_type.val, ws[1])
                 => call.result = Some(ws[2])

C9_Witness ==
    /\ Returned("calculate")
    /\ call.args.disaster_type = Some(<< "\t", "F", "l", "o", "o", "d", " ", " " >>)
    /\ call.result = Some(90)

\* C10: calculate returns the baseline 10, without raising, for an absent,
\* empty, whitespace-only or unrecognized disaster type; every result is
\* one of 10, 70, 80, 85, 90, 95.
C10_BaselineForUnknown ==
    Returned("calculate")
        => /\ \E score \in { 10, 70, 80, 85, 90, 95 } : call.result = Some(score)
           /\ (\/ call.args.disaster_type = None
               \/ \A ws \in SpecScores :
                     ~Spells(call.args.disaster_type.val, ws[1]))
                 => call.result = Some(10)

C10_Witness ==
    /\ Returned("calculate")
    /\ call.args.disaster_type =
         Some(<< " ", "t", "S", "u", "N", "a", "M", "i", " " >>)
    /\ call.result = Some(10)

\* ------------------------------------------------------------------------
\* Properties of the package endpoints
\* ------------------------------------------------------------------------
Responded(op) == http.phase = "response" /\ http.request.op = op

\* the exchange is about a package that exists
OnExistingPackage == http.request.package_uuid \in 1..Len(packages)

TargetRow == packages[http.request.package_uuid]

\* C11: in every reachable state every stored package with a non-null
\* priority_label has a non-null category.
C11_PriorityOnlyWithCategory ==
    \A i \in 1..Len(packages) :
        packages[i].priority_label # None => packages[i].category # None

C11_Witness ==
    /\ Responded("seed_packages")
    /\ \E i \in 1..Len(packages) :
          packages[i].category = None /\ packages[i].priority_label = None
    /\ \E i \in 1..Len(packages) :
          packages[i].category # None /\ packages[i].priority_label # None

\* the signals of a classification request as the classifier is to see
\* them: zk_verified_sender as supplied, or the verifier's answer for the
\* claimed product type when it is absent
SpecSignals(body) ==
    [weight |-> body.weight,
     fragile |-> body.fragile,
     sender_type |-> body.sender_type,
     zk_verified_sender |->
        IF body.zk_verified_sender = None
        THEN Some(\E word \in SpecRegistry :
                     /\ body.claimed_product_type # None
                     /\ Spells(body.claimed_product_type.val, word))
        ELSE body.zk_verified_sender]

SpecCategory(body) == SpecRuleResult[FirstMatch(SpecSignals(body))]

SpecPriority(urgency, category) ==
    IF category = None THEN None
    ELSE Some(SpecMatrix[urgency.val][category.val])

\* C12: a classification request on an existing package succeeds and
\* overwrites category with the classifier's result for the signals and
\* priority_label with the resolver's result for (urgency, that category).
C12_ProcessOverwritesBoth ==
    (Responded("process_package") /\ OnExistingPackage)
        => /\ http.status = 200
           /\ TargetRow.category = SpecCategory(http.request.body)
           /\ TargetRow.priority_label =
                 SpecPriority(TargetRow.urgency, SpecCategory(http.request.body))

\* C13: when zk_verified_sender is absent the classifier is given the
\* verifier's answer for the claimed product type; when it is supplied the
\* supplied value is used and the claimed product type has no influence.
C13_ZkFromVerifierWhenAbsent ==
    (Responded("process_package") /\ OnExistingPackage)
        => IF http.request.body.zk_verified_sender = None
           THEN TargetRow.category = SpecCategory(http.request.body)
           ELSE \A c \in { b.claimed_product_type : b \in ProcessSignals } :
                   TargetRow.category =
                      SpecCategory([http.request.body EXCEPT
                                       !.claimed_product_type = c])

\* C15: a successful create_package stores the new package with category
\* and priority_label null, whatever urgency, status and description came.
C15_CreatedWithoutCategory ==
    (Responded("create_package") /\ http.status = 201)
        => LET row == packages[Len(packages)] IN
           /\ row.package_id = Some(http.request.body.package_id)
           /\ row.urgency = Some(http.request.body.urgency)
           /\ row.status = Some(http.request.body.status)
           /\ row.category = None
           /\ row.priority_label = None

C15_Witness ==
    /\ Responded("create_package")
    /\ http.status = 201
    /\ http.request.body.urgency = "critical"
    /\ http.request.body.description = Some(box)
    /\ packages[Len(packages)].description = Some(box)

\* the text contains the claim as a run of characters
Leaks(text, claim) ==
    /\ claim # << >>
    /\ \E i \in 1..Len(text) :
          /\ i + Len(claim) - 1 <= Len(text)
          /\ SubSeq(text, i, i + Len(claim) - 1) = claim

\* the claimed product types that clients send
SuppliedClaims ==
    { b.claimed_product_type.val :
        b \in { x \in ProcessSignals : x.claimed_product_type # None } }

\* no stored package and no log record holds a claimed product type
NoClaimStored ==
    \A c \in SuppliedClaims :
        /\ \A i \in 1..Len(packages) :
              packages[i].description # None
                 => ~Leaks(packages[i].description.val, c)
        /\ http.phase = "response"
              => \A rec \in http.log : ~Leaks(rec.detail, c)

\* requests that differ only in claimed product types with the same
\* verification result leave the same table and the same log
ClaimHasNoTrace ==
    Handling("process_package")
        => \A c \in { b.claimed_product_type : b \in ProcessSignals } :
              verify(c) = verify(http.request.body.claimed_product_type)
                 => LET other == [http.request EXCEPT !.body.claimed_product_type = c]
                        this == process_package(packages, http.request)
                        that == process_package(packages, other)
                    IN this.db = that.db /\ this.log = that.log

\* C16: the claimed product type is used only transiently: no persisted
\* row and no log record contains it, and claims with the same verification
\* result give identical rows and log records.
C16_ClaimNeverStoredOrLogged == NoClaimStored /\ ClaimHasNoTrace

C16_Witness ==
    /\ Responded("process_package")
    /\ OnExistingPackage
    /\ http.request.body.claimed_product_type = Some(unicorn_dust)
    /\ http.log # { }

\* C17: no request changes the stored urgency of an existing package.
C17_UrgencyImmutable ==
    [][\A i \in 1..Len(packages) :
          /\ i <= Len(packages')
          /\ packages'[i].urgency = packages[i].urgency]_vars

C17_Witness ==
    /\ Responded("update_package_category")
    /\ http.status = 200
    /\ TargetRow.urgency = Some("critical")
    /\ TargetRow.category = Some("fancy")

\* C20: a category override stores the requested category and, in the same
\* write, the matrix priority for (stored urgency, requested category),
\* which is non-null.
C20_OverrideStoresMatrixPriority ==
    (Responded("update_package_category") /\ OnExistingPackage)
        => /\ http.status = 200
           /\ TargetRow.category = Some(http.request.body.category)
           /\ TargetRow.priority_label =
                 Some(SpecMatrix[TargetRow.urgency.val][http.request.body.category])
           /\ http.body = Some(TargetRow)

C20_Witness ==
    /\ Responded("update_package_category")
    /\ http.status = 200
    /\ TargetRow.urgency = Some("critical")
    /\ TargetRow.category = Some("medicine")
    /\ TargetRow.priority_label = Some("high")

\* ------------------------------------------------------------------------
\* Properties of the receipt endpoints
\* ------------------------------------------------------------------------
\* C14: every read of a receipt by list_receipts reports the harm score
\* that was computed from its disaster_type when it was created
C14_HarmScoreFixedAtCreation ==
    (Responded("list_receipts") /\ http.status = 200) =>
        \A k \in 1..Len(http.body.val) :
            http.body.val[k].harm_score = harm_at_creation[http.body.val[k].id]

\* ------------------------------------------------------------------------
\* Properties of the engine under concurrent callers
\* ------------------------------------------------------------------------
\* what the call gives when no other caller runs
Alone(op, args) ==
    CASE op = "verify" -> verify(args.claimed_product_type)
      [] op = "detect" -> detect(args.urgency, args.weight, args.fragile,
                                 args.sender_type, args.zk_verified_sender)
      [] op = "compute" -> compute(args.urgency, args.category)
      [] op = "calculate" -> calculate(args.disaster_type)

\* C18: under every interleaving of the callers the registry keeps its
\* initial value and every call that has returned gave the result it gives
\* when run alone
C18_RegistryReadOnly ==
    /\ registry = WHO_APPROVED_PRODUCTS
    /\ \A c \in Callers :
          calls[c].pc = "returned" =>
              calls[c].result = Alone(calls[c].op, calls[c].args)

\* one caller's verify of an unknown claim has returned while another
\* caller's verify of the same claim stands before its membership test
C18_Witness ==
    \E c, d \in Callers :
        /\ c # d
        /\ InCall(c, "verify", "returned")
        /\ calls[c].args.claimed_product_type = Some(unicorn_dust)
        /\ calls[c].result = Some(FALSE)
        /\ InCall(d, "verify", "normalized")
        /\ calls[d].args.claimed_product_type = Some(unicorn_dust)

\* ------------------------------------------------------------------------
\* Further properties of the package endpoints
\* ------------------------------------------------------------------------
\* the statuses a client may name, as written and as stored
SpecStatuses ==
    { << << "i", "n", "_", "t", "r", "a", "n", "s", "i", "t" >>, "in_transit" >>,
      << << "d", "e", "l", "i", "v", "e", "r", "e", "d" >>, "delivered" >>,
      << << "d", "e", "l", "a", "y", "e", "d" >>, "delayed" >> }

\* C21: a status update of an existing package with in_transit, delivered
\* or delayed in any letter case and between any whitespace succeeds and
\* stores the lowercase value as the package's status.
C21_StatusUpdateNormalizes ==
    (Responded("update_package") /\ OnExistingPackage
        /\ http.request.body.status # None)
        => \A st \in SpecStatuses :
              Spells(http.request.body.status.val, st[1])
                 => http.status = 200 /\ TargetRow.status = Some(st[2])

\* ------------------------------------------------------------------------
\* Properties of seed_packages
\* ------------------------------------------------------------------------
DemoIds == { demo_packages[n].package_id : n \in 1..Len(demo_packages) }

RowsOf(table, package_id) ==
    { i \in 1..Len(table) : table[i].package_id = Some(package_id) }

\* no demo package_id is stored twice, and once a seed request has been
\* answered every demo package_id is stored
OneRowPerDemoId ==
    \A id \in DemoIds :
        /\ Cardinality(RowsOf(packages, id)) <= 1
        /\ Responded("seed_packages") => Cardinality(RowsOf(packages, id)) = 1

\* a seed request that finds all demo packages stored answers 409 and
\* leaves the table as it is
SeedOfCompleteTable ==
    (Handling("seed_packages") /\ \A id \in DemoIds : RowsOf(packages, id) # { })
        => http'.status = 409 /\ packages' = packages

\* C22: seed_packages never inserts a demo package whose package_id is
\* already stored: after any sequence of seed requests the table holds
\* exactly one row per demo package_id, and a seed request issued when all
\* ten exist answers 409 and leaves the table unchanged.
C22_SeedNeverDuplicates == []OneRowPerDemoId /\ [][SeedOfCompleteTable]_vars

\* a seed answered 409 on a table whose first row a client created under
\* the package_id of a demo package
C22_Witness ==
    /\ Responded("seed_packages")
    /\ http.status = 409
    /\ Len(packages) = Len(demo_packages)
    /\ packages[1].package_id = Some("DEMO-010-NGO-CRIT-MED")
    /\ packages[1].category = None

\* ------------------------------------------------------------------------
\* Further properties of the receipt endpoints
\* ------------------------------------------------------------------------
\* the disaster_type of the demo receipt with this receipt_id
DemoDisaster(receipt_id) ==
    LET n == CHOOSE k \in 1..Len(demo_receipts) :
                 demo_receipts[k].receipt_id = receipt_id
    IN demo_receipts[n].disaster_type

\* C23: the response of a successful create_receipt carries the harm score
\* calculated from the request's disaster_type, and so does every receipt
\* in the response of seed_receipts.
C23_ResponseCarriesScore ==
    /\ (Responded("create_receipt") /\ http.status = 201)
          => http.body.val.harm_score =
                 calculate(http.request.body.disaster_type)
    /\ (Responded("seed_receipts") /\ http.status = 201)
          => \A k \in 1..Len(http.body.val) :
                http.body.val[k].harm_score =
                    calculate(DemoDisaster(http.body.val[k].receipt_id))

C23_Witness ==
    /\ Responded("create_receipt")
    /\ http.status = 201
    /\ http.request.body.disaster_type = Some(<< " " >> \o str_upper(earthquake))
    /\ http.body.val.harm_score = Some(95)
    /\ receipts[http.body.val.id].harm_score = None

\* ------------------------------------------------------------------------
\* Further properties of PriorityEngine.compute
\* ------------------------------------------------------------------------
\* the pair is not one of the nine cells of the matrix
OutsideMatrix(urgency, category) ==
    urgency \notin UrgencyValues \/ category \notin { Some(c) : c \in PackageCategory }

\* C24 as stated: compute returns null for every pair with a non-null
\* category that is not one of the nine cells of the matrix.
C24_NullOutsideMatrix ==
    (Returned("compute") /\ call.args.category # None
        /\ OutsideMatrix(call.args.urgency, call.args.category))
        => call.result = None

\* C24 as the code has it: outside the nine cells compute returns low when
\* urgency is flexible, whatever the non-null category, and null otherwise.
C24_NullOutsideMatrixUnlessFlexible ==
    (Returned("compute") /\ call.args.category # None
        /\ OutsideMatrix(call.args.urgency, call.args.category))
        => call.result =
             IF call.args.urgency = Some("flexible") THEN Some("low") ELSE None

C24_Witness ==
    /\ Returned("compute")
    /\ call.args = [urgency |-> Some("flexible"), category |-> Some("toys")]
    /\ call.result = Some("low")

\* what the comments of the seed data document for each demo package: its
\* priority, and its category where the comment names one
DocumentedPriority ==
    { << "DEMO-001-HOSPITAL-CRIT", "high" >>, << "DEMO-002-NGO-CRIT", "medium" >>,
      << "DEMO-003-NGO-PREF", "medium" >>, << "DEMO-004-WAREHOUSE-FLEX", "low" >>,
      << "DEMO-005-RETAIL-DELAYED", "medium" >>, << "DEMO-007-GOVT-CRIT", "high" >>,
      << "DEMO-008-RETAIL-PREF", "low" >>, << "DEMO-009-LUXURY-FLEX", "low" >>,
      << "DEMO-010-NGO-CRIT-MED", "high" >> }

DocumentedCategory ==
    { << "DEMO-001-HOSPITAL-CRIT", "medicine" >>, << "DEMO-005-RETAIL-DELAYED", "clothes" >>,
      << "DEMO-007-GOVT-CRIT", "medicine" >>, << "DEMO-008-RETAIL-PREF", "clothes" >>,
      << "DEMO-009-LUXURY-FLEX", "fancy" >>, << "DEMO-010-NGO-CRIT-MED", "medicine" >> }

\* C25: each demo package that seed_packages inserts is stored with the
\* priority, and the category, that its comment in the seed data documents.
C25_SeedMatchesComments ==
    (Responded("seed_packages") /\ http.status = 201)
        => \A k \in 1..Len(http.body.val) :
              LET row == http.body.val[k] IN
              /\ \A d \in DocumentedPriority :
                    row.package_id = Some(d[1]) => row.priority_label = Some(d[2])
              /\ \A d \in DocumentedCategory :
                    row.package_id = Some(d[1]) => row.category = Some(d[2])

\* the request names a status that is none of the three, in any spelling
InvalidStatus(body) ==
    /\ body.status # None
    /\ \A st \in SpecStatuses : ~Spells(body.status.val, st[1])

\* the answer the specification gives to a request that must fail
ExpectedError(request, table) ==
    CASE request.op \in { "process_package", "update_package_category" }
            /\ request.package_uuid \notin 1..Len(table) -> 404
      [] request.op = "update_package" /\ InvalidStatus(request.body) -> 422
      [] request.op = "create_package"
            /\ RowsOf(table, request.body.package_id) # { } -> 409
      [] OTHER -> 0

\* the step from a request to its response
Answered == http.phase = "request" /\ http'.phase = "response"

PriorityRank(p) == CASE p = Some("high") -> 3 [] p = Some("medium") -> 2
                     [] p = Some("low") -> 1 [] OTHER -> 0

UrgencyRank(u) == CASE u = "critical" -> 3 [] u = "preferred" -> 2 [] u = "flexible" -> 1

CategoryRank(c) == CASE c = "medicine" -> 3 [] c = "clothes" -> 2 [] c = "fancy" -> 1

\* C30: over the declared enums compute is monotone: a higher urgency with
\* the same category never gives a lower priority, medicine gets at least
\* the priority of clothes and clothes at least that of fancy under the
\* same urgency, and high is returned for (critical, medicine) only.
C30_ComputeMonotone ==
    (Returned("compute") /\ call.args.category # None)
        => LET u == call.args.urgency.val
               c == call.args.category.val
           IN
           /\ PriorityRank(call.result) >= 1
           /\ \A u2 \in PackageUrgency :
                 UrgencyRank(u2) >= UrgencyRank(u)
                    => PriorityRank(compute(Some(u2), Some(c)))
                          >= PriorityRank(call.result)
           /\ \A c2 \in PackageCategory :
                 CategoryRank(c2) >= CategoryRank(c)
                    => PriorityRank(compute(Some(u), Some(c2)))
                          >= PriorityRank(call.result)
           /\ call.result = Some("high") => u = "critical" /\ c = "medicine"

C30_Witness ==
    /\ Returned("compute")
    /\ call.args = [urgency |-> Some("preferred"), category |-> Some("clothes")]
    /\ call.result = Some("low")

\* ------------------------------------------------------------------------
\* Properties of the service with two processes on one database
\* ------------------------------------------------------------------------
\* C26: in every reachable state, under every interleaving of create,
\* seed, classification and category override requests, each stored
\* package has priority_label = compute(stored urgency, stored category).
C26_PairConsistent ==
    \A i \in 1..Len(packages) :
        packages[i].priority_label =
            compute(packages[i].urgency, packages[i].category)

\* one override of package 1 is complete while another one, for a
\* different category, stands between its fetch and its update
C26_Witness ==
    \E w, v \in Workers :
        /\ At(w, "update_package_category", "done")
        /\ workers[w].status = 200
        /\ workers[w].body.category = "medicine"
        /\ At(v, "update_package_category", "update")
        /\ workers[v].body.category = "fancy"
        /\ packages[1].category = Some("medicine")
        /\ packages[1].priority_label = Some("high")

\* C28: whatever the interleaving of two concurrent seed_packages
\* requests, the existence check before each insert keeps the table at
\* no more than one row per demo package_id.
C28_CheckThenInsertSuffices ==
    (\A w \in Workers : workers[w].op = "seed_packages")
        => \A id \in DemoIds : Cardinality(RowsOf(packages, id)) <= 1

\* C29: every dashboard metrics response has total_packages =
\* active_routes + alerts_count + completed_deliveries, also when inserts
\* of another request fall between its four count queries.
C29_MetricsAddUp ==
    \A w \in Workers :
        (At(w, "get_dashboard_metrics", "done") /\ workers[w].status = 200)
            => workers[w].counts[1] =
                   workers[w].counts[2] + workers[w].counts[3] + workers[w].counts[4]

====
